---- MODULE Spec2Model ----
(***************************************************************************)
(* SurrealStore (crates/robert-graph/src/surreal_store.rs): the GraphStore *)
(* and VectorStore implementation over an embedded SurrealDB engine.       *)
(*                                                                         *)
(* A Rust String is modelled as a sequence of one-character strings, so    *)
(* that the relation-name validation, the interpolation of an id into a    *)
(* SurrealQL text and the formatting of a record id back into a String are *)
(* computed character by character.  Characters outside ASCII are written  *)
(* by their code point ("U+00E9" is the letter e with acute accent).       *)
(*                                                                         *)
(* The engine is an external crate.  Its UPDATE statement creates a        *)
(* missing record in the 1.x releases and leaves the table alone in the    *)
(* 2.x releases; the source compiles against both, so the behaviour is a   *)
(* choice made once, in Init (variable upsert).                            *)
(***************************************************************************)
EXTENDS Bags, FiniteSets, Integers, Sequences, TLC

VARIABLES
    upsert,   \* engine semantics of UPDATE on a missing record (fixed per build)
    nodes,    \* table `node`: record id -> record, or NoRecord
    edges,    \* the relation records, a bag (each RELATE makes a new record)
    last,     \* the call that returned last: operation, arguments, outcome
    race,     \* the writes two callers have issued at once, in applied order
    trav      \* a get_neighbors call in progress: its position and its locals

vars == <<upsert, nodes, edges, last, race, trav>>

(***************************************************************************)
(* Characters and strings                                                  *)
(***************************************************************************)
AsciiLetters ==
    {"a","b","c","d","e","f","g","h","i","j","k","l","m",
     "n","o","p","q","r","s","t","u","v","w","x","y","z",
     "A","B","C","D","E","F","G","H","I","J","K","L","M",
     "N","O","P","Q","R","S","T","U","V","W","X","Y","Z"}

AsciiDigits == {"0","1","2","3","4","5","6","7","8","9"}

\* A character that is not ASCII is written by its code point.  These are
\* the ones of the model's alphabet for which char::is_alphanumeric is true
\* (Unicode Alphabetic or Numeric): two letters, a digit and a superscript.
UnicodeLetters == {"U+00E9", "U+00E8", "U+0663", "U+00B2"}

\* The angle brackets SurrealDB wraps an escaped record id in.
BRACKETL == "U+27E8"
BRACKETR == "U+27E9"

\* char::is_alphanumeric (Unicode Alphabetic or Numeric)
is_alphanumeric(c) == c \in AsciiLetters \cup AsciiDigits \cup UnicodeLetters

\* u8::is_ascii_alphanumeric, as used by the engine's identifier rules
is_ascii_alphanumeric(c) == c \in AsciiLetters \cup AsciiDigits

IsAllDigits(s) == \A i \in 1..Len(s) : s[i] \in AsciiDigits

DigitValue(c) ==
    CASE c = "0" -> 0 [] c = "1" -> 1 [] c = "2" -> 2 [] c = "3" -> 3
      [] c = "4" -> 4 [] c = "5" -> 5 [] c = "6" -> 6 [] c = "7" -> 7
      [] c = "8" -> 8 [] c = "9" -> 9

DigitChar(d) ==
    CASE d = 0 -> "0" [] d = 1 -> "1" [] d = 2 -> "2" [] d = 3 -> "3"
      [] d = 4 -> "4" [] d = 5 -> "5" [] d = 6 -> "6" [] d = 7 -> "7"
      [] d = 8 -> "8" [] d = 9 -> "9"

RECURSIVE DecimalValue(_)
DecimalValue(s) ==
    IF Len(s) = 0 THEN 0
    ELSE 10 * DecimalValue(SubSeq(s, 1, Len(s) - 1)) + DigitValue(s[Len(s)])

RECURSIVE DecimalText(_)
DecimalText(n) ==
    IF n < 10 THEN <<DigitChar(n)>>
    ELSE Append(DecimalText(n \div 10), DigitChar(n % 10))

(***************************************************************************)
(* Data model: Node, Edge, GraphError, and the engine's record ids         *)
(***************************************************************************)
\* Option<T>: None is the empty set, Some(v) the singleton.
None == {}
Some(v) == {v}
Unwrap(o) == CHOOSE v \in o : TRUE
Unit == "()"

\* Result<T, GraphError>; an error carries its message text and the value
\* formatted into it.
Ok(v) == [ok |-> TRUE, val |-> v]
Storage(text, arg) == [ok |-> FALSE, kind |-> "Storage", text |-> text, arg |-> arg]
NotFound(id) == [ok |-> FALSE, kind |-> "NotFound", text |-> "", arg |-> id]

\* surrealdb::sql::Id: a record id is a string or a number.
StringId(s) == [kind |-> "String", s |-> s, n |-> 0]
NumberId(n) == [kind |-> "Number", s |-> << >>, n |-> n]
ParseError == [kind |-> "ParseError", s |-> << >>, n |-> 0]

\* The ids, relation names, contents and vectors callers pass.
P1 == <<"p", "1">>
P2 == <<"p", "2">>
Seven == <<"7">>
NodeIds == {P1, P2, Seven}

Knows == <<"k", "n", "o", "w", "s">>
IsA == <<"i", "s", "_", "a">>

Contents ==
    { [label |-> "Person", properties |-> [name |-> "Alice"], partition_id |-> "personal"],
      [label |-> "Document", properties |-> [title |-> "Hello"], partition_id |-> "work"] }

Partitions == {"personal", "work"}

Vectors == { <<1, 0>> }

Nodes == { [id |-> i, label |-> c.label, properties |-> c.properties,
            partition_id |-> c.partition_id] : i \in NodeIds, c \in Contents }

\* The nodes of the traversal scenarios: p1 and "7" in one partition, p2 in either.
GraphNodes == { n \in Nodes : n.id = P2 \/ n.partition_id = "personal" }

\* weights in tenths: 8 is 0.8f32 (f32 -> f64 -> f32 through the engine is exact)
EdgeKinds ==
    { [relation |-> Knows, weight |-> 8, partition_id |-> "personal"],
      [relation |-> IsA, weight |-> 5, partition_id |-> "work"],
      [relation |-> << >>, weight |-> 8, partition_id |-> "personal"],
      [relation |-> <<"U+00E9">>, weight |-> 8, partition_id |-> "personal"],
      [relation |-> <<"a", "-", "b">>, weight |-> 5, partition_id |-> "work"] }

EdgeEnds == { <<P1, P2>>, <<P2, P1>>, <<Seven, P2>>, <<P1, Seven>> }

Edges == { [source |-> e[1], target |-> e[2], relation |-> k.relation,
            weight |-> k.weight, partition_id |-> k.partition_id] :
           e \in EdgeEnds, k \in EdgeKinds }

\* The edges of the node scenarios: those from p1 to p2.
FewEdges == { e \in Edges : e.source = P1 /\ e.target = P2 }

\* ("node", id) as a resource: the id becomes Id::String whatever its text.
IdFromStr(id) == StringId(id)

\* An identifier of SurrealQL: ASCII letters, digits and underscore, not empty.
IsIdent(s) ==
    /\ Len(s) > 0
    /\ \A i \in 1..Len(s) : is_ascii_alphanumeric(s[i]) \/ s[i] = "_"

\* `node:{id}` inside a query text: the engine parses the text after the
\* colon, digits as Id::Number, an identifier as Id::String.
ParseRecordId(text) ==
    IF Len(text) > 0 /\ IsAllDigits(text) THEN NumberId(DecimalValue(text))
    ELSE IF IsIdent(text) THEN StringId(text)
    ELSE ParseError

\* escape_rid: a string id that is not a plain identifier, or is all digits,
\* is printed between angle brackets.
escape_rid(s) ==
    IF IsIdent(s) /\ ~IsAllDigits(s) THEN s
    ELSE <<BRACKETL>> \o s \o <<BRACKETR>>

\* Id's Display, used by `sn.id.id.to_string()`.
IdToString(id) ==
    IF id.kind = "Number" THEN DecimalText(id.n) ELSE escape_rid(id.s)

(***************************************************************************)
(* The engine: table `node` is a function from the record ids that have a  *)
(* record to the record; a record's fields are Options.                    *)
(***************************************************************************)
\* struct NodeContent, as the record CONTENT stores: no embedding field.
NodeContent(node) ==
    [label |-> Some(node.label), properties |-> Some(node.properties),
     partition_id |-> Some(node.partition_id), embedding |-> None]

Put(ns, rid, rec) == (rid :> rec) @@ ns

\* CREATE node:rid CONTENT ...: an existing record is an error.
DbCreate(ns, rid, content) ==
    IF rid \in DOMAIN ns
    THEN [err |-> Some("record already exists"), nodes |-> ns]
    ELSE [err |-> None, nodes |-> Put(ns, rid, content)]

\* DbUpdateContent, were the properties merged key by key (MERGE).
DbUpdatePatches(ns, rid, content, ups) ==
    IF rid \in DOMAIN ns /\ ns[rid].properties # None
    THEN [err |-> None,
          nodes |-> Put(ns, rid,
                        [content EXCEPT !.properties =
                            Some(Unwrap(content.properties)
                                    @@ Unwrap(ns[rid].properties))])]
    ELSE IF rid \in DOMAIN ns \/ ups
    THEN [err |-> None, nodes |-> Put(ns, rid, content)]
    ELSE [err |-> None, nodes |-> ns]

\* UPDATE node:rid CONTENT ...: the record's fields are replaced by the
\* content's; a missing record is created only by an engine that upserts.
DbUpdateContent(ns, rid, content, ups) ==
    IF rid \in DOMAIN ns \/ ups
    THEN [err |-> None, nodes |-> Put(ns, rid, content)]
    ELSE [err |-> None, nodes |-> ns]

\* UPDATE node:rid SET embedding = $vector
DbSetEmbedding(ns, rid, vector, ups) ==
    IF rid \in DOMAIN ns
    THEN [err |-> None,
          nodes |-> Put(ns, rid, [ns[rid] EXCEPT !.embedding = Some(vector)])]
    ELSE IF ups
    THEN [err |-> None,
          nodes |-> Put(ns, rid, [label |-> None, properties |-> None,
                                  partition_id |-> None,
                                  embedding |-> Some(vector)])]
    ELSE [err |-> None, nodes |-> ns]

\* serde for struct SurrealNode: label, properties and partition_id are
\* required fields; other fields of the record are ignored.
Deserializes(rec) ==
    rec.label # None /\ rec.properties # None /\ rec.partition_id # None

\* impl From<SurrealNode> for Node
NodeFrom(rid, rec) ==
    [id |-> IdToString(rid), label |-> Unwrap(rec.label),
     properties |-> Unwrap(rec.properties),
     partition_id |-> Unwrap(rec.partition_id)]

(***************************************************************************)
(* GraphStore for SurrealStore: each operation as a function of the store, *)
(* giving its result, the number of engine requests and the new store.     *)
(***************************************************************************)
add_node(ns, node) ==
    LET r == DbCreate(ns, IdFromStr(node.id), NodeContent(node))
    IN  [result |-> IF r.err = None THEN Ok(Unit) ELSE Storage(Unwrap(r.err), << >>),
         requests |-> 1, nodes |-> r.nodes]

update_node(ns, node, ups) ==
    LET r == DbUpdateContent(ns, IdFromStr(node.id), NodeContent(node), ups)
    IN  [result |-> IF r.err = None THEN Ok(Unit) ELSE Storage(Unwrap(r.err), << >>),
         requests |-> 1, nodes |-> r.nodes]

\* get_node, were NotFound to carry the formatted record id.
get_node_formatted(ns, id) ==
    LET rid == IdFromStr(id)
    IN  IF rid \notin DOMAIN ns
        THEN [result |-> NotFound(IdToString(rid)), requests |-> 1]
        ELSE IF ~Deserializes(ns[rid])
        THEN [result |-> Storage("missing field", << >>), requests |-> 1]
        ELSE [result |-> Ok(NodeFrom(rid, ns[rid])), requests |-> 1]

get_node(ns, id) ==
    LET rid == IdFromStr(id)
    IN  IF rid \notin DOMAIN ns THEN [result |-> NotFound(id), requests |-> 1]
        ELSE IF ~Deserializes(ns[rid])
        THEN [result |-> Storage("missing field", << >>), requests |-> 1]
        ELSE [result |-> Ok(NodeFrom(rid, ns[rid])), requests |-> 1]

\* RelationAllowed, were the check to stop at the first character.
RelationAllowedFirst(relation) ==
    Len(relation) = 0 \/ is_alphanumeric(relation[1]) \/ relation[1] = "_"

\* The relation-name check of add_edge.
RelationAllowed(relation) ==
    \A i \in 1..Len(relation) :
        is_alphanumeric(relation[i]) \/ relation[i] = "_"

\* DbRelate, were the engine to take any relation name the text carries.
DbRelateAnyName(es, edge) ==
    LET src == ParseRecordId(edge.source)
        tgt == ParseRecordId(edge.target)
    IN  IF src = ParseError \/ tgt = ParseError
        THEN [err |-> Some("parse error"), edges |-> es]
        ELSE [err |-> None,
              edges |-> es (+) SetToBag({[tb |-> edge.relation, in |-> src,
                                          out |-> tgt,
                                          weight |-> Some(edge.weight),
                                          partition_id |-> Some(edge.partition_id)]})]

\* RELATE node:{source}->{relation}->node:{target} SET weight, partition_id:
\* the text has to parse; the endpoints need not exist.
DbRelate(es, edge) ==
    LET src == ParseRecordId(edge.source)
        tgt == ParseRecordId(edge.target)
    IN  IF src = ParseError \/ tgt = ParseError \/ ~IsIdent(edge.relation)
        THEN [err |-> Some("parse error"), edges |-> es]
        ELSE [err |-> None,
              edges |-> es (+) SetToBag({[tb |-> edge.relation, in |-> src,
                                          out |-> tgt,
                                          weight |-> Some(edge.weight),
                                          partition_id |-> Some(edge.partition_id)]})]

add_edge(es, edge) ==
    IF ~RelationAllowed(edge.relation)
    THEN [result |-> Storage("Invalid relation name: ", edge.relation),
          requests |-> 0, edges |-> es]
    ELSE LET r == DbRelate(es, edge)
         IN  [result |-> IF r.err = None THEN Ok(Unit)
                         ELSE Storage(Unwrap(r.err), << >>),
              requests |-> 1, edges |-> r.edges]

RECURSIVE SumCounts(_, _)
SumCounts(bag, S) ==
    IF S = {} THEN 0
    ELSE LET x == CHOOSE y \in S : TRUE
         IN  bag[x] + SumCounts(bag, S \ {x})

\* SELECT ->? FROM node:{id}: nothing for a record that does not exist, else
\* the outgoing relation records of every type, flattened.
ListRelations(ns, es, rid) ==
    IF rid \notin DOMAIN ns THEN None
    ELSE Some([r \in {x \in DOMAIN es : x.in = rid} |-> es[r]])

\* SELECT * FROM $ids over node record ids: the records that exist.
FetchNodes(ns, rids) == [rid \in rids \cap DOMAIN ns |-> ns[rid]]

DefaultWeight == 10

\* EdgeOf, were the ends of the relation record taken the wrong way round.
EdgeOfReversed(id, rel) ==
    [source |-> IdToString(rel.out), target |-> IdToString(rel.in),
     relation |-> rel.tb,
     weight |-> IF rel.weight = None THEN DefaultWeight ELSE Unwrap(rel.weight),
     partition_id |-> IF rel.partition_id = None THEN "personal"
                      ELSE Unwrap(rel.partition_id)]

\* The Edge built from a relation record for the caller's id.
EdgeOf(id, rel) ==
    [source |-> id, target |-> IdToString(rel.out), relation |-> rel.tb,
     weight |-> IF rel.weight = None THEN DefaultWeight ELSE Unwrap(rel.weight),
     partition_id |-> IF rel.partition_id = None THEN "personal"
                      ELSE Unwrap(rel.partition_id)]

\* node_map and the final loop: one pair per relation whose target resolved.
Assemble(id, rels, fetched) ==
    LET kept == {r \in DOMAIN rels : r.out \in DOMAIN fetched}
        PairOf(r) == <<EdgeOf(id, r), NodeFrom(r.out, fetched[r.out])>>
    IN  [p \in {PairOf(r) : r \in kept} |->
            SumCounts(rels, {r \in kept : PairOf(r) = p})]

\* The batched target fetch, were it one request per relation (N+1).
TargetFetchPerRelation(rels) == BagCardinality(rels)

\* The target nodes are fetched by a single `SELECT * FROM $ids`.
TargetFetchRequests(rels) == 1

\* Resolve, were a relation without a fetched target an error.
ResolveStrict(id, rels, fetched) ==
    IF \E k \in DOMAIN fetched : ~Deserializes(fetched[k])
    THEN Storage("missing field", << >>)
    ELSE IF \E r \in DOMAIN rels : r.out \notin DOMAIN fetched
    THEN NotFound(id)
    ELSE Ok(Assemble(id, rels, fetched))

\* From the target rows to the answer: the rows are read as SurrealNode,
\* then the pairs are assembled.
Resolve(id, rels, fetched) ==
    IF \E k \in DOMAIN fetched : ~Deserializes(fetched[k])
    THEN Storage("missing field", << >>)
    ELSE Ok(Assemble(id, rels, fetched))

\* EmptyAnswer, were an id without a record answered with NotFound.
EmptyAnswerOrNotFound(id, listed) ==
    IF listed = None THEN NotFound(id) ELSE Ok(EmptyBag)

\* The answer when the first request lists no relation, be it that the
\* record has none or that there is no record: Ok(vec![]).
EmptyAnswer(id, listed) == Ok(EmptyBag)

\* get_neighbors when no other writer acts between its requests: the three
\* requests are answered from one state of the store.
get_neighbors(ns, es, id) ==
    LET rid == ParseRecordId(id)
        listed == ListRelations(ns, es, rid)
        rels == Unwrap(listed)
        fetched == FetchNodes(ns, {r.out : r \in DOMAIN rels})
    IN  IF rid = ParseError
        THEN [result |-> Storage("parse error", << >>), requests |-> 1]
        ELSE IF listed = None \/ DOMAIN rels = {}
        THEN [result |-> EmptyAnswer(id, listed), requests |-> 1]
        ELSE [result |-> Resolve(id, rels, fetched),
              requests |-> 2 + TargetFetchRequests(rels)]

\* query_by_partition, were the WHERE clause missing.
query_every_partition(ns, partition_id) ==
    LET hit == {rid \in DOMAIN ns : Deserializes(ns[rid])}
    IN  [result |-> Ok({NodeFrom(rid, ns[rid]) : rid \in hit}), requests |-> 1]

\* SELECT * FROM node WHERE partition_id = $partition
query_by_partition(ns, partition_id) ==
    LET hit == {rid \in DOMAIN ns : ns[rid].partition_id = Some(partition_id)}
    IN  IF \E rid \in hit : ~Deserializes(ns[rid])
        THEN [result |-> Storage("missing field", << >>), requests |-> 1]
        ELSE [result |-> Ok({NodeFrom(rid, ns[rid]) : rid \in hit}),
              requests |-> 1]

\* FilterPartition, were either partition enough.
FilterEither(result, partition_id) ==
    IF ~result.ok THEN result
    ELSE Ok([p \in {x \in DOMAIN result.val :
                        x[1].partition_id = partition_id
                            \/ x[2].partition_id = partition_id} |->
                result.val[p]])

\* What get_neighbors_in_partition makes of the answer of get_neighbors: an
\* error is passed on, of the pairs those stay whose edge and node are both
\* in the partition.
FilterPartition(result, partition_id) ==
    IF ~result.ok THEN result
    ELSE Ok([p \in {x \in DOMAIN result.val :
                        x[1].partition_id = partition_id
                            /\ x[2].partition_id = partition_id} |->
                result.val[p]])

\* get_neighbors_in_partition when no other writer acts between its requests.
get_neighbors_in_partition(ns, es, id, partition_id) ==
    LET all == get_neighbors(ns, es, id)
    IN  [result |-> FilterPartition(all.result, partition_id),
         requests |-> all.requests]

(***************************************************************************)
(* VectorStore for SurrealStore                                            *)
(***************************************************************************)
add_embedding(ns, id, vector, ups) ==
    LET rid == ParseRecordId(id)
        r == DbSetEmbedding(ns, rid, vector, ups)
    IN  IF rid = ParseError
        THEN [result |-> Storage("parse error", << >>), requests |-> 1,
              nodes |-> ns]
        ELSE [result |-> Ok(Unit), requests |-> 1, nodes |-> r.nodes]

\* Vectors have whole components in the model: <<2, 0, 1>> stands for
\* [1.0, 0.0, 0.5], counted in halves.  The cosine does not depend on the unit.
RECURSIVE Dot(_, _)
Dot(a, b) ==
    IF Len(a) = 0 THEN 0 ELSE Head(a) * Head(b) + Dot(Tail(a), Tail(b))

\* The largest r in lo..hi with r * r <= n.
RECURSIVE ISqrtIn(_, _, _)
ISqrtIn(n, lo, hi) ==
    IF lo = hi THEN lo
    ELSE LET mid == (lo + hi + 1) \div 2
         IN  IF mid * mid <= n THEN ISqrtIn(n, mid, hi)
             ELSE ISqrtIn(n, lo, mid - 1)

\* vector::similarity::cosine(a, b) = dot(a, b) / (|a| * |b|), in
\* thousandths and truncated: 1000 is 1.0.  The rounding of the engine's f64
\* and of the f32 score is far below a thousandth.  Both vectors are non-zero.
CosineMilli(a, b) ==
    LET d == Dot(a, b)
        r == ISqrtIn((1000000 * d * d) \div (Dot(a, a) * Dot(b, b)), 0, 1000)
    IN  IF d >= 0 THEN r ELSE 0 - r

\* The rows of `SELECT id, cosine(embedding, $query) AS score FROM node`:
\* one per record of the table.
ScoreOf(ns, rid, vector) == CosineMilli(Unwrap(ns[rid].embedding), vector)

\* The function rejects an argument that is not an array of numbers (a
\* record without embedding gives NONE) or vectors of two dimensions, and
\* the statement fails with it.
CosineFails(ns, vector) ==
    \E rid \in DOMAIN ns :
        \/ ns[rid].embedding = None
        \/ Len(Unwrap(ns[rid].embedding)) # Len(vector)

\* ScoreDesc, were ORDER BY missing: the rows in any order.
AnyOrder(ns, vector) ==
    {f \in [1..Cardinality(DOMAIN ns) -> DOMAIN ns] :
        \A i, j \in DOMAIN f : i # j => f[i] # f[j]}

\* ORDER BY score DESC: every order of the rows with non-increasing score;
\* rows of equal score come in any order.
ScoreDesc(ns, vector) ==
    {f \in [1..Cardinality(DOMAIN ns) -> DOMAIN ns] :
        /\ \A i, j \in DOMAIN f : i # j => f[i] # f[j]
        /\ \A i, j \in DOMAIN f :
              i < j => ScoreOf(ns, f[i], vector) >= ScoreOf(ns, f[j], vector)}

\* The outcomes search may have: the query fails, or LIMIT keeps the first
\* rows of an order and each becomes (id.id.to_string(), score).
search(ns, vector, limit) ==
    IF CosineFails(ns, vector)
    THEN {[result |-> Storage("invalid arguments", << >>), requests |-> 1]}
    ELSE LET n == IF limit <= Cardinality(DOMAIN ns) THEN limit
                  ELSE Cardinality(DOMAIN ns)
         IN  {[result |-> Ok([i \in 1..n |->
                                <<IdToString(f[i]), ScoreOf(ns, f[i], vector)>>]),
               requests |-> 1] : f \in ScoreDesc(ns, vector)}

(***************************************************************************)
(* The store as a state machine: one action per operation.                 *)
(***************************************************************************)
MaxEdges == 2

Call(op, args, r) ==
    [op |-> op, args |-> args, result |-> r.result, requests |-> r.requests]

\* No get_neighbors call is in progress.
Idle ==
    [pc |-> "idle", id |-> << >>, filter |-> None, rels |-> EmptyBag,
     fetched |-> << >>, present |-> {}, all |-> Ok(EmptyBag), requests |-> 0]

Init ==
    /\ upsert \in BOOLEAN
    /\ nodes = << >>
    /\ edges = EmptyBag
    /\ last = [op |-> "new", args |-> << >>, result |-> Ok(Unit), requests |-> 0]
    /\ race = << >>
    /\ trav = Idle

AddNode(node) ==
    LET r == add_node(nodes, node)
    IN  /\ nodes' = r.nodes
        /\ last' = Call("add_node", <<node>>, r)
        /\ UNCHANGED <<upsert, edges, race, trav>>

UpdateNode(node) ==
    LET r == update_node(nodes, node, upsert)
    IN  /\ nodes' = r.nodes
        /\ last' = Call("update_node", <<node>>, r)
        /\ UNCHANGED <<upsert, edges, race, trav>>

GetNode(id) ==
    /\ last' = Call("get_node", <<id>>, get_node(nodes, id))
    /\ UNCHANGED <<upsert, nodes, edges, race, trav>>

\* AddEdge, were RELATE to create the records its ends lack.
AddEdgeCreatingEnds(edge) ==
    LET r == add_edge(edges, edge)
        ends == IF r.result.ok
                THEN {ParseRecordId(edge.source), ParseRecordId(edge.target)}
                         \ DOMAIN nodes
                ELSE {}
    IN  /\ BagCardinality(edges) < MaxEdges
        /\ edges' = r.edges
        /\ nodes' = [rid \in DOMAIN nodes \cup ends |->
                        IF rid \in DOMAIN nodes THEN nodes[rid]
                        ELSE [label |-> None, properties |-> None,
                              partition_id |-> None, embedding |-> None]]
        /\ last' = Call("add_edge", <<edge>>, r)
        /\ UNCHANGED <<upsert, race, trav>>

AddEdge(edge) ==
    LET r == add_edge(edges, edge)
    IN  /\ BagCardinality(edges) < MaxEdges
        /\ edges' = r.edges
        /\ last' = Call("add_edge", <<edge>>, r)
        /\ UNCHANGED <<upsert, nodes, race, trav>>

QueryByPartition(p) ==
    /\ last' = Call("query_by_partition", <<p>>, query_by_partition(nodes, p))
    /\ UNCHANGED <<upsert, nodes, edges, race, trav>>

AddEmbedding(id, vector) ==
    LET r == add_embedding(nodes, id, vector, upsert)
    IN  /\ nodes' = r.nodes
        /\ last' = Call("add_embedding", <<id, vector>>, r)
        /\ UNCHANGED <<upsert, edges, race, trav>>

Search(vector, limit) ==
    /\ \E r \in search(nodes, vector, limit) :
          last' = Call("search", <<vector, limit>>, r)
    /\ UNCHANGED <<upsert, nodes, edges, race, trav>>

(***************************************************************************)
(* get_neighbors and get_neighbors_in_partition, request by request.  A    *)
(* call awaits three backend requests; between two of them any other       *)
(* caller of the shared handle, or another writer of the database, may     *)
(* act.  `trav` keeps the call's locals, and keeps them after the call has *)
(* returned: the partition asked for, if any (filter), the listed          *)
(* relations and then their rows (rels), the target rows (fetched) and the *)
(* answer of get_neighbors before the filter (all).                        *)
(*                                                                         *)
(* A relation row is named by its record id, and the engine gives every    *)
(* RELATE a new one.  The listed ids are kept as the rows they name; when  *)
(* a row is deleted its id names nothing any more, whatever is written     *)
(* afterwards, so ExternalDelete takes the row out of the listed ones.     *)
(***************************************************************************)

\* The call returns: `last` takes the outcome, `trav` goes to "done".
Return(id, filter, rels, fetched, present, result, requests) ==
    /\ last' = IF filter = None
               THEN Call("get_neighbors", <<id>>,
                         [result |-> result, requests |-> requests])
               ELSE Call("get_neighbors_in_partition", <<id, Unwrap(filter)>>,
                         [result |-> FilterPartition(result, Unwrap(filter)),
                          requests |-> requests])
    /\ trav' = [pc |-> "done", id |-> id, filter |-> filter, rels |-> rels,
                fetched |-> fetched, present |-> present, all |-> result,
                requests |-> requests]

\* First request: the ids of the outgoing relations.
ListRequest(id, filter) ==
    /\ trav.pc \in {"idle", "done"}
    /\ LET rid == ParseRecordId(id)
           listed == ListRelations(nodes, edges, rid)
       IN  IF rid = ParseError
           THEN Return(id, filter, EmptyBag, << >>, {},
                       Storage("parse error", << >>), 1)
           ELSE IF listed = None \/ DOMAIN Unwrap(listed) = {}
           THEN Return(id, filter, EmptyBag, << >>, {},
                       EmptyAnswer(id, listed), 1)
           ELSE /\ trav' = [pc |-> "relations", id |-> id, filter |-> filter,
                            rels |-> Unwrap(listed), fetched |-> << >>,
                            present |-> {}, all |-> Ok(EmptyBag),
                            requests |-> 1]
                /\ UNCHANGED last
    /\ UNCHANGED <<upsert, nodes, edges, race>>

\* A caller calls get_neighbors(id).
GetNeighborsList(id) == ListRequest(id, None)

\* A caller calls get_neighbors_in_partition(id, partition_id).
GetNeighborsInPartitionList(id, partition_id) ==
    ListRequest(id, Some(partition_id))

\* Second request: the rows of the listed relation ids.
GetNeighborsRelations ==
    /\ trav.pc = "relations"
    /\ IF DOMAIN trav.rels = {}
       THEN Return(trav.id, trav.filter, trav.rels, << >>, {}, Ok(EmptyBag), 2)
       ELSE /\ trav' = [trav EXCEPT !.pc = "targets",
                            !.present = {r.out : r \in DOMAIN trav.rels}
                                           \cap DOMAIN nodes,
                            !.requests = 2]
            /\ UNCHANGED last
    /\ UNCHANGED <<upsert, nodes, edges, race>>

\* Third request: the target nodes, then the pairs.
GetNeighborsTargets ==
    /\ trav.pc = "targets"
    /\ LET fetched == FetchNodes(nodes, {r.out : r \in DOMAIN trav.rels})
       IN  Return(trav.id, trav.filter, trav.rels, fetched, trav.present,
                  Resolve(trav.id, trav.rels, fetched),
                  2 + TargetFetchRequests(trav.rels))
    /\ UNCHANGED <<upsert, nodes, edges, race>>

\* The relation rows that stay when the record rid is deleted: the engine
\* deletes the relations of a deleted record with it.
Survivors(rows, rid) ==
    [r \in {x \in DOMAIN rows : x.in # rid /\ x.out # rid} |-> rows[r]]

\* Another writer of the database deletes a node.
ExternalDelete(rid) ==
    /\ rid \in DOMAIN nodes
    /\ nodes' = [k \in DOMAIN nodes \ {rid} |-> nodes[k]]
    /\ edges' = Survivors(edges, rid)
    /\ trav' = IF trav.pc = "relations"
               THEN [trav EXCEPT !.rels = Survivors(trav.rels, rid)]
               ELSE trav
    /\ UNCHANGED <<upsert, last, race>>

\* Node scenarios: every node operation, with the edges from p1 to p2.
Next ==
    \/ \E node \in Nodes : AddNode(node)
    \/ \E node \in Nodes : UpdateNode(node)
    \/ \E id \in NodeIds : GetNode(id)
    \/ \E p \in Partitions : QueryByPartition(p)
    \/ \E id \in NodeIds, vector \in Vectors : AddEmbedding(id, vector)
    \/ \E edge \in FewEdges : AddEdge(edge)

Spec == Init /\ [][Next]_vars

\* Edge scenarios: every edge, over the nodes of GraphNodes.
NextGraph ==
    \/ \E node \in GraphNodes : AddNode(node)
    \/ \E vector \in Vectors : AddEmbedding(P2, vector)
    \/ \E edge \in Edges : AddEdge(edge)

SpecGraph == Init /\ [][NextGraph]_vars

\* Vector scenarios: three documents, embeddings in the direction of the
\* query, in the same direction and twice as long, and in another direction.
Doc1 == <<"d", "o", "c", "1">>
VectorNodes ==
    {[id |-> i, label |-> "Document", properties |-> [title |-> "Hello"],
      partition_id |-> "work"] : i \in {Doc1, P1, P2}}
SearchVectors == {<<2, 0, 1>>, <<4, 0, 2>>, <<2, 0, 0>>}
Limits == {1, 2}

NextVector ==
    \/ \E node \in VectorNodes : AddNode(node)
    \/ \E node \in VectorNodes, vector \in SearchVectors :
          AddEmbedding(node.id, vector)
    \/ \E vector \in SearchVectors, limit \in Limits : Search(vector, limit)

SpecVector == Init /\ [][NextVector]_vars

(***************************************************************************)
(* Two callers hold clones of the store and write the same node id at      *)
(* once.  A write is one backend request, so the calls take effect one     *)
(* after the other in either order; `race` lists them in that order, each  *)
(* with the record it found and the record it left.                        *)
(***************************************************************************)

Callers == {"a", "b"}
RaceNodes == {n \in Nodes : n.id = P1}

\* The record stored under the id, if any.
Record(ns, id) ==
    IF IdFromStr(id) \in DOMAIN ns THEN Some(ns[IdFromStr(id)]) ELSE None

\* add_node or update_node by name.
Write(op, ns, node, ups) ==
    IF op = "add_node" THEN add_node(ns, node) ELSE update_node(ns, node, ups)

\* Caller c's write is applied.
RaceWrite(c, op, node) ==
    /\ \A i \in 1..Len(race) :
          /\ race[i].caller # c
          /\ race[i].node.id = node.id
          /\ race[i].node # node
    /\ LET r == Write(op, nodes, node, upsert)
       IN  /\ nodes' = r.nodes
           /\ last' = Call(op, <<node>>, r)
           /\ race' = Append(race, [caller |-> c, op |-> op, node |-> node,
                                    result |-> r.result,
                                    before |-> Record(nodes, node.id),
                                    after |-> Record(r.nodes, node.id)])
    /\ UNCHANGED <<upsert, edges, trav>>

\* Both calls have returned; the callers may write again.
RaceOver ==
    /\ Len(race) = Cardinality(Callers)
    /\ race' = << >>
    /\ UNCHANGED <<upsert, nodes, edges, last, trav>>

\* Between two races the node may be given an embedding.
RaceEmbedding(vector) ==
    /\ race = << >>
    /\ AddEmbedding(P1, vector)

NextRace ==
    \/ \E c \in Callers, op \in {"add_node", "update_node"}, node \in RaceNodes :
          RaceWrite(c, op, node)
    \/ RaceOver
    \/ \E vector \in Vectors : RaceEmbedding(vector)
    \/ GetNode(P1)

SpecRace == Init /\ [][NextRace]_vars

\* One get_neighbors call on p1, taken request by request, among writers.
TravNodes == {n \in Nodes : n.id \in {P1, P2}}
TravEdges == {e \in Edges : e.source = P1 /\ e.relation \in {Knows, IsA}}

NextConc ==
    \/ \E node \in TravNodes : AddNode(node)
    \/ \E edge \in TravEdges : AddEdge(edge)
    \/ \E rid \in {StringId(P2)} : ExternalDelete(rid)
    \/ GetNeighborsList(P1)
    \/ GetNeighborsRelations
    \/ GetNeighborsTargets

SpecConc == Init /\ [][NextConc]_vars

\* One get_neighbors_in_partition call on p1 at a time, taken request by
\* request, while other callers add p1, p2 in either partition, edges of
\* either partition and an embedding for p2.
PartitionNodes == {n \in GraphNodes : n.id \in {P1, P2}}
PartitionEdges ==
    {e \in Edges : e.source = P1 /\ e.target = P2 /\ e.relation \in {Knows, IsA}}

NextPartition ==
    \/ \E node \in PartitionNodes : AddNode(node)
    \/ \E edge \in PartitionEdges : AddEdge(edge)
    \/ \E vector \in Vectors : AddEmbedding(P2, vector)
    \/ \E p \in Partitions : GetNeighborsInPartitionList(P1, p)
    \/ GetNeighborsRelations
    \/ GetNeighborsTargets

SpecPartition == Init /\ [][NextPartition]_vars

(***************************************************************************)
(* Properties                                                              *)
(***************************************************************************)
LastNode == last.args[1]
Stored(id) == IdFromStr(id) \in DOMAIN nodes

\* C1: after add_node(N) returns success, get_node(N.id) returns a node
\* whose id, label, properties and partition_id all equal those of N.
C1_RoundTrip ==
    (last.op = "add_node" /\ last.result.ok)
        => get_node(nodes, LastNode.id).result = Ok(LastNode)

\* C2 as stated: add_node(N2) on an id that already has a node returns
\* success and get_node(N2.id) then returns N2's label, properties and
\* partition_id.
C2_Overwrites ==
    [][ (last'.op = "add_node" /\ IdFromStr(last'.args[1].id) \in DOMAIN nodes)
          => /\ last'.result.ok
             /\ LET got == get_node(nodes', last'.args[1].id).result
                IN  /\ got.ok
                    /\ got.val.label = last'.args[1].label
                    /\ got.val.properties = last'.args[1].properties
                    /\ got.val.partition_id = last'.args[1].partition_id ]_vars

\* C3 as stated, in the case of a node id that is present: update_node(N)
\* and add_node(N) return the same outcome and produce the same store.
C3_Identical ==
    [][ ( /\ last'.op \in {"add_node", "update_node"}
          /\ IdFromStr(last'.args[1].id) \in DOMAIN nodes )
          => LET a == add_node(nodes, last'.args[1])
                 u == update_node(nodes, last'.args[1], upsert)
             IN  a.result = u.result /\ a.nodes = u.nodes ]_vars

LastEdge == last.args[1]

\* ^[A-Za-z0-9_]+$
MatchesPattern(relation) ==
    /\ Len(relation) > 0
    /\ \A i \in 1..Len(relation) :
          relation[i] \in AsciiLetters \cup AsciiDigits \cup {"_"}

HasForbiddenChar(relation) ==
    \E i \in 1..Len(relation) :
        ~(is_alphanumeric(relation[i]) \/ relation[i] = "_")

\* C4: add_edge rejects every relation name that does not match
\* ^[A-Za-z0-9_]+$ (the empty name and names with non-ASCII characters
\* included): the call fails with a Storage error and no relation of that
\* name is ever stored; and every relation name it accepts matches the
\* pattern.
C4_PatternEnforced ==
    /\ last.op = "add_edge"
          => /\ ~MatchesPattern(LastEdge.relation)
                  => ~last.result.ok /\ last.result.kind = "Storage"
             /\ last.result.ok => MatchesPattern(LastEdge.relation)
    /\ \A r \in DOMAIN edges : MatchesPattern(r.tb)

\* add_edge has just failed for a name that does not match the pattern
\* although each of its characters is alphanumeric, or that is empty, while
\* the store holds relations.
C4_Witness ==
    /\ last.op = "add_edge"
    /\ ~MatchesPattern(LastEdge.relation)
    /\ ~HasForbiddenChar(LastEdge.relation)
    /\ ~last.result.ok
    /\ BagCardinality(edges) > 0

\* C5: add_edge with a relation name containing a character that is neither
\* alphanumeric nor underscore fails with a Storage error carrying the name,
\* issues no engine request and leaves every node and edge record unchanged.
C5_RejectedBeforeBackend ==
    [][ (last'.op = "add_edge" /\ HasForbiddenChar(last'.args[1].relation))
          => /\ last'.result
                  = Storage("Invalid relation name: ", last'.args[1].relation)
             /\ last'.requests = 0
             /\ nodes' = nodes
             /\ edges' = edges ]_vars

\* add_edge with the name a-b has just been refused on a store that holds
\* a node and an edge.
C5_Witness ==
    /\ last.op = "add_edge"
    /\ HasForbiddenChar(LastEdge.relation)
    /\ ~last.result.ok
    /\ last.requests = 0
    /\ DOMAIN nodes # {}
    /\ BagCardinality(edges) > 0

\* C6, for an edge whose source and target are stored nodes: after
\* add_edge(E) succeeds, get_neighbors(E.source) contains a pair whose edge
\* has E's relation, weight and partition_id and whose node is the stored
\* target node.
C6_EdgeThenNeighbor ==
    ( /\ last.op = "add_edge"
      /\ last.result.ok
      /\ get_node(nodes, LastEdge.source).result.ok
      /\ get_node(nodes, LastEdge.target).result.ok )
        => LET gn == get_neighbors(nodes, edges, LastEdge.source).result
           IN  /\ gn.ok
               /\ \E p \in DOMAIN gn.val :
                    /\ p[1].relation = LastEdge.relation
                    /\ p[1].weight = LastEdge.weight
                    /\ p[1].partition_id = LastEdge.partition_id
                    /\ p[2] = get_node(nodes, LastEdge.target).result.val

\* One pair per relation record that add_edge made for source id and whose
\* target is a stored node.
ExpectedNeighbors(id) ==
    LET TargetOf(r) == get_node(nodes, IdToString(r.out)).result
        out == {r \in DOMAIN edges : r.in = ParseRecordId(id) /\ TargetOf(r).ok}
        PairOf(r) == <<EdgeOf(id, r), TargetOf(r).val>>
    IN  [p \in {PairOf(r) : r \in out} |->
            SumCounts(edges, {r \in out : PairOf(r) = p})]

\* C7, for the id of a stored node: get_neighbors(id) returns exactly one
\* pair per outgoing relation record of id whose target node exists,
\* whatever the relation types, and nothing else.
C7_OnePairPerRelation ==
    \A id \in NodeIds :
        get_node(nodes, id).result.ok
            => LET got == get_neighbors(nodes, edges, id).result
               IN  /\ got.ok
                   /\ got.val = ExpectedNeighbors(id)

\* C8: query_by_partition(p) returns exactly the nodes whose stored
\* partition_id equals p: every node get_node finds is in the answer if and
\* only if its partition_id is p, and every node of the answer is such a node.
C8_ExactPartition ==
    \A p \in Partitions :
        LET q == query_by_partition(nodes, p).result
        IN  /\ q.ok
            /\ \A id \in NodeIds :
                  LET g == get_node(nodes, id).result
                  IN  g.ok => ((g.val \in q.val) <=> (g.val.partition_id = p))
            /\ \A n \in q.val :
                  /\ n.partition_id = p
                  /\ \E id \in NodeIds : get_node(nodes, id).result = Ok(n)

\* query_by_partition has just returned some nodes while the store also
\* holds a node of another partition, an embedding and an edge.
C8_Witness ==
    /\ last.op = "query_by_partition"
    /\ last.result.ok
    /\ last.result.val # {}
    /\ \E rid \in DOMAIN nodes :
          /\ nodes[rid].partition_id # None
          /\ nodes[rid].partition_id # Some(last.args[1])
    /\ \E rid \in DOMAIN nodes : nodes[rid].embedding # None
    /\ BagCardinality(edges) > 0

BothIn(pair, p) == pair[1].partition_id = p /\ pair[2].partition_id = p

\* C9: get_neighbors_in_partition(id, p) returns exactly the pairs of
\* get_neighbors(id) whose edge and target node are both in partition p:
\* of the answer its get_neighbors call gave, while others were writing,
\* and of the answer get_neighbors gives on a store nobody else writes to.
C9_BothPartitions ==
    /\ (trav.pc = "done" /\ last.op = "get_neighbors_in_partition") =>
          LET all == trav.all
              f == last.result
              p == last.args[2]
          IN  /\ f.ok <=> all.ok
              /\ ~f.ok => f = all
              /\ f.ok =>
                   /\ DOMAIN f.val = {x \in DOMAIN all.val : BothIn(x, p)}
                   /\ \A x \in DOMAIN f.val : f.val[x] = all.val[x]
    /\ \A p \in Partitions :
          LET all == get_neighbors(nodes, edges, P1).result
              f == get_neighbors_in_partition(nodes, edges, P1, p).result
          IN  /\ f.ok <=> all.ok
              /\ ~f.ok => f = all
              /\ f.ok =>
                   /\ DOMAIN f.val = {x \in DOMAIN all.val : BothIn(x, p)}
                   /\ \A x \in DOMAIN f.val : f.val[x] = all.val[x]

\* get_neighbors_in_partition has just returned a pair and left out a pair
\* whose target node is in p while its edge is not.
C9_Witness ==
    /\ trav.pc = "done"
    /\ last.op = "get_neighbors_in_partition"
    /\ last.result.ok
    /\ DOMAIN last.result.val # {}
    /\ \E x \in DOMAIN trav.all.val :
          x[1].partition_id # last.args[2] /\ x[2].partition_id = last.args[2]

\* C10: get_node(id) on an id without a node record fails with NotFound
\* carrying exactly the requested id; Storage is returned only for a record
\* that exists and cannot be read.
C10_NotFound ==
    last.op = "get_node"
        => IF ~Stored(last.args[1])
           THEN last.result = NotFound(last.args[1])
           ELSE \/ last.result.ok
                \/ /\ last.result.kind = "Storage"
                   /\ ~Deserializes(nodes[IdFromStr(last.args[1])])

\* get_node("7") has just answered NotFound on a store that holds nodes.
C10_Witness ==
    /\ last.op = "get_node"
    /\ last.args[1] = Seven
    /\ last.result = NotFound(Seven)
    /\ DOMAIN nodes # {}


\* The relations stored with the record rid as their source.
Outgoing(rid) == {r \in DOMAIN edges : r.in = rid}

\* A step that takes the first request of a get_neighbors call.
ListStep == trav.pc \in {"idle", "done"} /\ trav' # trav

\* C11: a get_neighbors call issues at most 3 backend requests however many
\* relations leave the node, and for a node without outgoing relations it
\* issues exactly 1 request and returns the empty list.
C11_BoundedRequests ==
    [][ /\ (trav'.pc = "done" /\ trav' # trav) =>
              /\ last'.op = "get_neighbors"
              /\ last'.requests = trav'.requests
              /\ last'.requests <= 3
        /\ (ListStep /\ Outgoing(ParseRecordId(trav'.id)) = {}) =>
              /\ trav'.pc = "done"
              /\ last'.op = "get_neighbors"
              /\ last'.requests = 1
              /\ last'.result.ok
              /\ BagCardinality(last'.result.val) = 0 ]_trav

\* A call over two relations has returned after three requests.
C11_Witness ==
    /\ trav.pc = "done"
    /\ last.op = "get_neighbors"
    /\ BagCardinality(trav.rels) = 2
    /\ last.requests = 3

\* The relations of the returned call whose target the third request found.
Resolved == {r \in DOMAIN trav.rels : r.out \in DOMAIN trav.fetched}

\* The relations of the returned call whose target the third request missed.
Dangling == {r \in DOMAIN trav.rels : r.out \notin DOMAIN trav.fetched}

\* C12: a relation whose target is absent when the targets are fetched, never
\* stored or deleted by another writer since the relations were fetched, does
\* not make get_neighbors fail: unless a fetched row cannot be read as a
\* node, the call succeeds with one pair per relation whose target was
\* fetched and no pair for the others.
C12_DanglingDropped ==
    (trav.pc = "done" /\ last.op = "get_neighbors" /\ trav.requests = 3
        /\ Dangling # {} /\ \A k \in DOMAIN trav.fetched : Deserializes(trav.fetched[k]))
        => /\ last.result.ok
           /\ BagCardinality(last.result.val) = SumCounts(trav.rels, Resolved)
           /\ \A r \in Resolved :
                 \E p \in DOMAIN last.result.val :
                     /\ p[1].relation = r.tb
                     /\ p[1].target = IdToString(r.out)
                     /\ p[2] = NodeFrom(r.out, trav.fetched[r.out])
           /\ \A r \in Dangling :
                 \A p \in DOMAIN last.result.val : p[1].target # IdToString(r.out)

\* A call has returned whose relation lost its target between the second
\* request and the third.
C12_Witness ==
    /\ trav.pc = "done"
    /\ last.op = "get_neighbors"
    /\ last.result.ok
    /\ \E r \in Dangling : r.out \in trav.present

\* C13 as stated, for two add_node calls: when two callers have called
\* add_node with the same id and different content at once, both calls
\* have succeeded and the stored node is the content written last.
C13_LastWriteWins ==
    (Len(race) = 2 /\ race[1].op = "add_node" /\ race[2].op = "add_node")
        => /\ race[1].result.ok
           /\ race[2].result.ok
           /\ Record(nodes, race[2].node.id) = Some(NodeContent(race[2].node))

\* C14 as stated: once add_embedding has set the embedding of a stored node,
\* no later add_node, update_node or add_edge changes or removes it.
C14_EmbeddingKept ==
    [][ \A rid \in DOMAIN nodes :
          ( /\ Deserializes(nodes[rid])
            /\ nodes[rid].embedding # None
            /\ last'.op \in {"add_node", "update_node", "add_edge"} )
          => /\ rid \in DOMAIN nodes'
             /\ nodes'[rid].embedding = nodes[rid].embedding ]_vars

\* The records that carry an embedding.
Embedded == {rid \in DOMAIN nodes : nodes[rid].embedding # None}

\* The pairs the last search returned; none if it failed.
Pairs == IF last.result.ok THEN last.result.val ELSE << >>

\* C15 as stated: in a store that holds nodes with an embedding and nodes
\* without, search succeeds and returns no pair that names a node without
\* an embedding.
C15_SkipsUnembedded ==
    ( /\ last.op = "search"
      /\ \E rid \in Embedded : Deserializes(nodes[rid])
      /\ \E rid \in DOMAIN nodes \ Embedded : Deserializes(nodes[rid]) )
        => /\ last.result.ok
           /\ \A i \in 1..Len(Pairs) :
                 \A rid \in DOMAIN nodes \ Embedded : Pairs[i][1] # IdToString(rid)

\* The records of which the last search returned no pair.
LeftOut == {rid \in Embedded : \A i \in 1..Len(Pairs) : Pairs[i][1] # IdToString(rid)}

\* C16: search(v, limit) returns at most limit pairs, in order of
\* non-increasing score; each is an embedded node with its cosine similarity
\* to v, none twice, and no embedded node left out scores strictly higher
\* than a returned one.  A search that succeeds returns limit pairs, or all
\* embedded nodes if there are fewer.
C16_TopLimit ==
    last.op = "search" =>
        LET v == last.args[1]
            limit == last.args[2]
        IN  /\ Len(Pairs) <= limit
            /\ \A i, j \in 1..Len(Pairs) :
                  /\ i < j => Pairs[i][2] >= Pairs[j][2]
                  /\ i # j => Pairs[i][1] # Pairs[j][1]
            /\ \A i \in 1..Len(Pairs) :
                  \E rid \in Embedded :
                      Pairs[i] = <<IdToString(rid),
                                   CosineMilli(Unwrap(nodes[rid].embedding), v)>>
            /\ \A rid \in LeftOut :
                  \A i \in 1..Len(Pairs) :
                      Pairs[i][2] >= CosineMilli(Unwrap(nodes[rid].embedding), v)
            /\ last.result.ok =>
                  Len(Pairs) = IF limit <= Cardinality(Embedded) THEN limit
                               ELSE Cardinality(Embedded)

\* A search with limit 2 over three embedded nodes has returned two pairs,
\* the higher score first, and left out a node that scores below the first.
C16_Witness ==
    /\ last.op = "search"
    /\ last.result.ok
    /\ last.args[2] = 2
    /\ Len(Pairs) = 2
    /\ Pairs[1][2] > Pairs[2][2]
    /\ \E rid \in LeftOut :
          CosineMilli(Unwrap(nodes[rid].embedding), last.args[1]) < Pairs[1][2]

\* C17 as stated, in a store whose records are all nodes written by
\* add_node: a search for the vector v, when a node's embedding is exactly
\* v, succeeds, and its first pair names a node whose embedding is v, with
\* score 1.0 to within a thousandth.
C17_ExactMatchFirst ==
    ( /\ last.op = "search"
      /\ \A rid \in DOMAIN nodes : Deserializes(nodes[rid])
      /\ \E rid \in DOMAIN nodes : nodes[rid].embedding = Some(last.args[1]) )
        => /\ last.result.ok
           /\ Len(Pairs) >= 1
           /\ \E rid \in DOMAIN nodes :
                 /\ nodes[rid].embedding = Some(last.args[1])
                 /\ Pairs[1][1] = IdToString(rid)
           /\ Pairs[1][2] >= 999 /\ Pairs[1][2] <= 1001

\* C18 as stated, for get_node: when the record of the id has no
\* partition_id, get_node returns a Node with partition_id "personal".
C18_DefaultPartition ==
    ( /\ last.op = "get_node"
      /\ IdFromStr(last.args[1]) \in DOMAIN nodes
      /\ nodes[IdFromStr(last.args[1])].partition_id = None )
        => /\ last.result.ok
           /\ last.result.val.partition_id = "personal"

\* The write applied last among the racing writes.
LastWrite == race[Len(race)]

\* The property keys of the record a write found.
KeysBefore(w) ==
    IF w.before = None \/ Unwrap(w.before).properties = None THEN {}
    ELSE DOMAIN Unwrap(Unwrap(w.before).properties)

\* C19: update_node(N) on a node that exists replaces it in full: get_node
\* then returns N's label, properties and partition_id, and no property key
\* that only the previous content had.
C19_FullReplace ==
    ( /\ Len(race) > 0
      /\ last.op = "update_node"
      /\ LastWrite.op = "update_node"
      /\ LastWrite.before # None )
        => LET N == LastWrite.node
               got == get_node(nodes, N.id).result
           IN  /\ last.result = Ok(Unit)
               /\ got.ok
               /\ got.val.label = N.label
               /\ got.val.properties = N.properties
               /\ got.val.partition_id = N.partition_id
               /\ \A key \in KeysBefore(LastWrite) \ DOMAIN N.properties :
                     key \notin DOMAIN got.val.properties

\* update_node has replaced a node whose properties had a key that the new
\* content has not.
C19_Witness ==
    /\ Len(race) > 0
    /\ last.op = "update_node"
    /\ LastWrite.op = "update_node"
    /\ LastWrite.before # None
    /\ KeysBefore(LastWrite) \ DOMAIN LastWrite.node.properties # {}
    /\ get_node(nodes, LastWrite.node.id).result.ok

\* C20: in every pair (Edge, Node) that get_neighbors(id) returns, whatever
\* other callers and writers did between its requests, Edge.source is the
\* id the caller passed and Node.id is Edge.target.
C20_PairConsistent ==
    (last.op = "get_neighbors" /\ last.result.ok)
        => \A p \in DOMAIN last.result.val :
              /\ p[1].source = last.args[1]
              /\ p[2].id = p[1].target

\* A call has returned a pair whose target node was added by another caller
\* between the call's second request and its third.
C20_Witness ==
    /\ trav.pc = "done"
    /\ last.op = "get_neighbors"
    /\ last.result.ok
    /\ \E p \in DOMAIN last.result.val :
          \E r \in Resolved :
              /\ r.out \notin trav.present
              /\ p[1].target = IdToString(r.out)

\* No record of table node goes by the id, as ("node", id) or as node:{id}.
NoRecord(id) ==
    /\ IdFromStr(id) \notin DOMAIN nodes
    /\ ParseRecordId(id) \notin DOMAIN nodes

\* C21: get_neighbors(id) on an id without a node record returns Ok with an
\* empty list after one backend request, never NotFound, also when add_edge
\* has stored relations with that id as source; the answer is the one a
\* stored node without outgoing relations gets.
C21_AbsentIsEmpty ==
    [][ (ListStep /\ NoRecord(trav'.id)) =>
            /\ trav'.pc = "done"
            /\ last'.op = "get_neighbors"
            /\ last'.result.ok
            /\ BagCardinality(last'.result.val) = 0
            /\ last'.requests = 1
            /\ \A node \in TravNodes :
                  LET rid == ParseRecordId(node.id)
                      bare == [r \in {x \in DOMAIN edges : x.in # rid} |-> edges[r]]
                      got == get_neighbors(Put(nodes, rid, NodeContent(node)),
                                           bare, node.id)
                  IN  node.id = trav'.id
                         => /\ got.result = last'.result
                            /\ got.requests = last'.requests ]_trav

\* get_neighbors has answered for an id without a record that add_edge was
\* given as the source of a stored relation.
C21_Witness ==
    /\ trav.pc = "done"
    /\ trav.requests = 1
    /\ last.op = "get_neighbors"
    /\ NoRecord(trav.id)
    /\ Outgoing(ParseRecordId(trav.id)) # {}
    /\ last.result.ok

\* The relation record RELATE writes for an edge.
RelationOf(edge) ==
    [tb |-> edge.relation, in |-> ParseRecordId(edge.source),
     out |-> ParseRecordId(edge.target), weight |-> Some(edge.weight),
     partition_id |-> Some(edge.partition_id)]

\* C22: add_edge(E) with a valid relation name, whether the nodes E.source
\* and E.target exist or not, creates and modifies no node record: get_node
\* and query_by_partition answer as before; the one record it adds is the
\* relation, which carries the weight and the partition_id.
C22_RelationsOnly ==
    [][ (last'.op = "add_edge" /\ RelationAllowed(last'.args[1].relation))
          => /\ nodes' = nodes
             /\ \A id \in NodeIds : get_node(nodes', id) = get_node(nodes, id)
             /\ \A p \in Partitions :
                   query_by_partition(nodes', p) = query_by_partition(nodes, p)
             /\ IF last'.result.ok
                THEN edges' = edges (+) SetToBag({RelationOf(last'.args[1])})
                ELSE edges' = edges ]_<<nodes, edges>>

\* add_edge has stored a relation between two ids of which neither has a
\* record, and the store holds a node.
C22_Witness ==
    /\ last.op = "add_edge"
    /\ last.result.ok
    /\ NoRecord(LastEdge.source)
    /\ NoRecord(LastEdge.target)
    /\ DOMAIN nodes # {}
    /\ RelationOf(LastEdge) \in DOMAIN edges

====
